---- MODULE Spec2Model ----
(***************************************************************************)
(* Model of the course availability bot: the course store (db.rs), the     *)
(* synchronizer Database::sync_courses and the cycle run_scrape_cycle      *)
(* (main.rs).  Every storage operation is one step and may fail; a failed  *)
(* `?` propagates the error to the caller of the cycle.  The points filter *)
(* (config.rs) is modelled with the f32 arithmetic and the string          *)
(* operations it is built from.                                            *)
(***************************************************************************)
EXTENDS Integers, Sequences, FiniteSets, TLC

(* ------------------------------ bounds -------------------------------- *)
\* longest list of courses one fetch returns
MaxLen == 2
\* number of scrape cycles of one run of the process
MaxCycles == 3
\* longest filter expression, in characters
MaxExprLen == 4
\* the most decimals a number is printed with
MaxDecimals == 5
\* the longest text of a course and of a points cell given to the extractor
MaxTextLen == 7
MaxPointsLen == 4
\* the most h2 elements and tables of a page, and the most rows of a table
MaxH2s == 2
MaxTables == 2
MaxRows == 2

(* ------------------------------- f32 ---------------------------------- *)
\* f32 arithmetic as the program's build does it: IEEE 754 binary32, round
\* to nearest, ties to even
RECURSIVE Pow2(_)
Pow2(k) == IF k = 0 THEN 1 ELSE 2 * Pow2(k - 1)

RECURSIVE Pow10(_)
Pow10(k) == IF k = 0 THEN 1 ELSE 10 * Pow10(k - 1)

\* the width of the significand of an f32, hidden bit included
MantissaBits == 24

\* the least and the first too large significand of a normal f32
MinMantissa == Pow2(MantissaBits - 1)
MantissaLimit == Pow2(MantissaBits)

\* an f32 is (-1)^neg * m * 2^e with m = 0 or 2^23 <= m < 2^24
F32Zero == [neg |-> FALSE, m |-> 0, e |-> 0]

\* q * 2^e plus a rest r / d below one unit, as the nearest f32 (ties to
\* even); q < 2^24
RECURSIVE RoundQuotient(_, _, _, _, _)
RoundQuotient(neg, q, r, d, e) ==
    IF q = 0 /\ r = 0 THEN [neg |-> neg, m |-> 0, e |-> 0]
    ELSE IF q < MinMantissa
    THEN RoundQuotient(neg, 2 * q + (IF 2 * r >= d THEN 1 ELSE 0),
                       IF 2 * r >= d THEN 2 * r - d ELSE 2 * r, d, e - 1)
    ELSE LET up == 2 * r > d \/ (2 * r = d /\ q % 2 = 1)
             m == IF up THEN q + 1 ELSE q
         IN IF m = MantissaLimit
            THEN [neg |-> neg, m |-> MinMantissa, e |-> e + 1]
            ELSE [neg |-> neg, m |-> m, e |-> e]

\* str::parse::<f32> of the decimal n / 10^d: the nearest f32
F32OfDecimal(neg, n, d) ==
    RoundQuotient(neg, n \div Pow10(d), n % Pow10(d), Pow10(d), 0)

\* v shifted right by k bits, the bits shifted out or-ed into the last bit
ShiftRightSticky(v, k) ==
    IF k = 0 THEN v
    ELSE IF k > 30 THEN (IF v = 0 THEN 0 ELSE 1)
    ELSE LET q == v \div Pow2(k)
         IN IF v % Pow2(k) = 0 \/ q % 2 = 1 THEN q ELSE q + 1

\* the bits of v above the width of the significand
RECURSIVE ExcessBits(_)
ExcessBits(v) ==
    IF v < MantissaLimit THEN 0 ELSE 1 + ExcessBits(v \div 2)

\* a magnitude v * 2^e, v < 2^29, as the nearest f32 (ties to even)
RECURSIVE Normalize(_, _, _)
Normalize(neg, v, e) ==
    IF v = 0 THEN F32Zero
    ELSE IF v < MinMantissa THEN Normalize(neg, 2 * v, e - 1)
    ELSE LET k == ExcessBits(v)
         IN RoundQuotient(neg, v \div Pow2(k), v % Pow2(k), Pow2(k), e + k)

\* f32 subtraction x - y, rounded to nearest: the operands are aligned at
\* the larger exponent with three guard bits
F32Sub(x, y) ==
    IF y.m = 0 THEN x
    ELSE IF x.m = 0 THEN [y EXCEPT !.neg = ~y.neg]
    ELSE LET top == IF x.e >= y.e THEN x.e ELSE y.e
             ax == ShiftRightSticky(8 * x.m, top - x.e)
             ay == ShiftRightSticky(8 * y.m, top - y.e)
             sx == IF x.neg THEN -ax ELSE ax
             sy == IF y.neg THEN -ay ELSE ay
             s == sx - sy
         IN IF s < 0 THEN Normalize(TRUE, -s, top - 3)
            ELSE Normalize(FALSE, s, top - 3)

\* f32::abs
F32Abs(x) == [x EXCEPT !.neg = FALSE]

\* x < y on magnitudes
MagLt(x, y) ==
    IF x.m = 0 THEN y.m # 0
    ELSE IF y.m = 0 THEN FALSE
    ELSE x.e < y.e \/ (x.e = y.e /\ x.m < y.m)

\* f32 comparison x < y
F32Lt(x, y) ==
    IF x.m = 0 /\ y.m = 0 THEN FALSE
    ELSE IF x.neg /\ x.m # 0
    THEN (IF y.neg /\ y.m # 0 THEN MagLt(y, x) ELSE TRUE)
    ELSE (IF y.neg /\ y.m # 0 THEN FALSE ELSE MagLt(x, y))

\* f32 comparison x <= y
F32Le(x, y) == ~F32Lt(y, x)

\* |x| * 10^d rounded to an integer (ties to even), digit by digit; x is
\* below 2^24 and, when it has a fraction, at least 2^-4
RECURSIVE ScaledDigits(_, _, _, _)
ScaledDigits(n, r, w, d) ==
    IF d = 0
    THEN (IF 2 * r > w \/ (2 * r = w /\ n % 2 = 1) THEN n + 1 ELSE n)
    ELSE ScaledDigits(10 * n + ((10 * r) \div w), (10 * r) % w, w, d - 1)

ScaledInteger(x, d) ==
    IF x.m = 0 THEN 0
    ELSE IF x.e >= 0 THEN x.m * Pow2(x.e) * Pow10(d)
    ELSE ScaledDigits(x.m \div Pow2(-x.e), x.m % Pow2(-x.e), Pow2(-x.e), d)

\* the fewest decimals with which the nearest decimal parses back to x
RECURSIVE ShortestDecimals(_, _)
ShortestDecimals(x, d) ==
    IF d >= MaxDecimals \/ F32OfDecimal(x.neg, ScaledInteger(x, d), d) = x
    THEN d
    ELSE ShortestDecimals(x, d + 1)

\* the d decimals of f, with leading zeros
RECURSIVE FractionString(_, _)
FractionString(f, d) ==
    IF d = 0 THEN ""
    ELSE FractionString(f \div 10, d - 1) \o ToString(f % 10)

\* impl Display for f32: the shortest decimal that parses back to x,
\* without exponent
F32ToString(x) ==
    LET d == ShortestDecimals(x, 0)
        n == ScaledInteger(x, d)
    IN (IF x.neg THEN "-" ELSE "")
           \o ToString(n \div Pow10(d))
           \o (IF d = 0 THEN "" ELSE "." \o FractionString(n % Pow10(d), d))

(* ------------------------------- text --------------------------------- *)
\* Option<T>
NoValue == <<>>
Some(v) == <<v>>

\* a str is a sequence of one-character strings
Digits == {"0", "1", "2", "3", "4", "5", "6", "7", "8", "9"}

DigitValue(c) ==
    CASE c = "0" -> 0 [] c = "1" -> 1 [] c = "2" -> 2 [] c = "3" -> 3
      [] c = "4" -> 4 [] c = "5" -> 5 [] c = "6" -> 6 [] c = "7" -> 7
      [] c = "8" -> 8 [] c = "9" -> 9

\* char::is_whitespace
IsWhitespace(c) == c = " "

\* str::trim
RECURSIVE TrimStart(_)
TrimStart(s) ==
    IF s # <<>> /\ IsWhitespace(Head(s)) THEN TrimStart(Tail(s)) ELSE s

RECURSIVE TrimEnd(_)
TrimEnd(s) ==
    IF s # <<>> /\ IsWhitespace(s[Len(s)])
    THEN TrimEnd(SubSeq(s, 1, Len(s) - 1))
    ELSE s

Trim(s) == TrimEnd(TrimStart(s))

\* str::find(char): the byte offset of the first occurrence, or NoValue
Find(s, c) ==
    IF \E k \in 1..Len(s) : s[k] = c
    THEN <<(CHOOSE k \in 1..Len(s) :
                s[k] = c /\ \A j \in 1..(k - 1) : s[j] # c) - 1>>
    ELSE NoValue

\* str::starts_with, str::ends_with
StartsWith(s, p) == Len(s) >= Len(p) /\ SubSeq(s, 1, Len(p)) = p
EndsWith(s, p) ==
    Len(s) >= Len(p) /\ SubSeq(s, Len(s) - Len(p) + 1, Len(s)) = p

\* the slices &s[from..] and &s[..to] and &s[from..to], offsets from 0
SliceFrom(s, from) == SubSeq(s, from + 1, Len(s))
SliceTo(s, to) == SubSeq(s, 1, to)

\* the value of a string of digits
RECURSIVE DigitsValue(_)
DigitsValue(s) ==
    IF s = <<>> THEN 0
    ELSE 10 * DigitsValue(SubSeq(s, 1, Len(s) - 1)) + DigitValue(s[Len(s)])

\* str::parse::<f32>: an optional sign, digits with at most one point and
\* at least one digit; no surrounding whitespace.  (Exponents, "inf" and
\* "nan" need letters, which the strings of the model do not have.)
ParseF32(s) ==
    LET signed == s # <<>> /\ s[1] \in {"+", "-"}
        neg == s # <<>> /\ s[1] = "-"
        body == IF signed THEN Tail(s) ELSE s
        point == Find(body, ".")
        whole == IF point = NoValue THEN body ELSE SliceTo(body, point[1])
        fraction == IF point = NoValue THEN <<>> ELSE SliceFrom(body, point[1] + 1)
    IN IF /\ \A k \in 1..Len(whole) : whole[k] \in Digits
          /\ \A k \in 1..Len(fraction) : fraction[k] \in Digits
          /\ Len(whole) + Len(fraction) >= 1
       THEN Some(F32OfDecimal(neg, DigitsValue(whole \o fraction),
                              Len(fraction)))
       ELSE NoValue

(* --------------------------- course universe -------------------------- *)
\* course codes: the identity of a course (models.rs Course.code)
Codes == {"A", "B", "C"}

\* the attribute versions a page can show for one code: version 1 has 2.5
\* points and version 2 has 10
Versions == {1, 2}

NameOf(v) == IF v = 1 THEN "Name1" ELSE "Name2"
PointsOf(v) ==
    IF v = 1 THEN F32OfDecimal(FALSE, 250, 2) ELSE F32OfDecimal(FALSE, 1000, 2)
UrlOf(v) == IF v = 1 THEN "/url1" ELSE "/url2"
FacultyOf(v) == IF v = 1 THEN "Faculty1" ELSE "Faculty2"

\* Course::new
Course(code, v) ==
    [code |-> code, name |-> NameOf(v), points |-> PointsOf(v),
     url |-> UrlOf(v), faculty |-> FacultyOf(v)]

\* the courses a page of the model can list: two versions of A, one of B
\* and one of C
AllCourses == {Course("A", 1), Course("A", 2), Course("B", 2), Course("C", 1)}

\* the lists a fetch can return: any order, codes may repeat
CourseLists == UNION {[1..n -> AllCourses] : n \in 0..MaxLen}

(* ------------------------------ helpers ------------------------------- *)
Range(s) == {s[k] : k \in 1..Len(s)}
CodesOf(s) == {s[k].code : k \in 1..Len(s)}
NoDuplicateCodes(s) == \A j, k \in 1..Len(s) : s[j].code = s[k].code => j = k

VARIABLES
    courses,          \* table courses: code -> row
    change_log,       \* table change_log, in insertion order
    run_log,          \* table run_log, in insertion order (id = position)
    pc,               \* position of the cycle
    cycle_number,     \* CYCLE_COUNT
    fetched,          \* run_scrape_cycle: courses
    now,              \* sync_courses: now, in ticks of the interval timer
    is_first_run,     \* sync_courses: is_first_run
    existing,         \* sync_courses: existing
    idx,              \* sync_courses: position of the upsert loop
    is_new,           \* sync_courses: is_new, what the last upsert returned
    added,            \* sync_courses: added
    removed,          \* sync_courses: removed
    codes_to_remove,  \* sync_courses: codes_to_remove still to visit
    pending,          \* the course whose change is being logged
    result,           \* what the cycle returned: "none", "ok" or the error
    filter,           \* run_scrape_cycle: filter (Config::points_filter)
    notified,         \* run_scrape_cycle: results of notify_all, with the diff
    pre,              \* store, change log and run log when the cycle started
    syncs_completed,  \* sync_courses calls that returned Ok in earlier cycles
    runs,             \* two stores synced side by side (SpecPair)
    config,           \* the Config the process was started with
    command,          \* the Command the process was started with
    probe             \* an input of a filter function and what it returned

vars == <<courses, change_log, run_log, pc, cycle_number, fetched, now,
          is_first_run, existing, idx, is_new, added, removed, codes_to_remove,
          pending, result, filter, notified, pre, syncs_completed, runs,
          config, command, probe>>

(* ----------------------------- course store --------------------------- *)
\* the Course a row is read back as (get_all_courses, remove_course)
RowCourse(code, row) ==
    [code |-> code, name |-> row.name, points |-> row.points,
     url |-> row.url, faculty |-> row.faculty]

\* Database::get_course_count
GetCourseCount(tbl) == Cardinality(DOMAIN tbl)

\* Database::is_first_run
IsFirstRun(tbl) == GetCourseCount(tbl) = 0

\* Database::get_all_courses
GetAllCourses(tbl) == [c \in DOMAIN tbl |-> RowCourse(c, tbl[c])]

\* upsert_course answering "new" for a code it updated
UpsertIsNew_Always(tbl, course) == TRUE

\* Database::upsert_course: the value returned
UpsertIsNew(tbl, course) == course.code \notin DOMAIN tbl

\* upsert_course whose UPDATE leaves out the url column
UpsertCourse_KeepsUrl(tbl, course, t) ==
    IF course.code \in DOMAIN tbl
    THEN [tbl EXCEPT ![course.code] =
            [name |-> course.name, points |-> course.points,
             url |-> tbl[course.code].url, faculty |-> course.faculty,
             first_seen_at |-> tbl[course.code].first_seen_at,
             last_seen_at |-> t]]
    ELSE [c \in DOMAIN tbl \cup {course.code} |->
            IF c = course.code
            THEN [name |-> course.name, points |-> course.points,
                  url |-> course.url, faculty |-> course.faculty,
                  first_seen_at |-> t, last_seen_at |-> t]
            ELSE tbl[c]]

\* upsert_course as INSERT OR IGNORE: an existing row keeps its attributes
UpsertCourse_InsertOrIgnore(tbl, course, t) ==
    IF course.code \in DOMAIN tbl
    THEN [tbl EXCEPT ![course.code].last_seen_at = t]
    ELSE [c \in DOMAIN tbl \cup {course.code} |->
            IF c = course.code
            THEN [name |-> course.name, points |-> course.points,
                  url |-> course.url, faculty |-> course.faculty,
                  first_seen_at |-> t, last_seen_at |-> t]
            ELSE tbl[c]]

\* upsert_course whose UPDATE sets first_seen_at as well
UpsertCourse_ResetsFirstSeen(tbl, course, t) ==
    [c \in DOMAIN tbl \cup {course.code} |->
        IF c = course.code
        THEN [name |-> course.name, points |-> course.points,
              url |-> course.url, faculty |-> course.faculty,
              first_seen_at |-> t, last_seen_at |-> t]
        ELSE tbl[c]]

\* Database::upsert_course: the table after the UPDATE or the INSERT
UpsertCourse(tbl, course, t) ==
    IF course.code \in DOMAIN tbl
    THEN [tbl EXCEPT ![course.code] =
            [name |-> course.name, points |-> course.points,
             url |-> course.url, faculty |-> course.faculty,
             first_seen_at |-> tbl[course.code].first_seen_at,
             last_seen_at |-> t]]
    ELSE [c \in DOMAIN tbl \cup {course.code} |->
            IF c = course.code
            THEN [name |-> course.name, points |-> course.points,
                  url |-> course.url, faculty |-> course.faculty,
                  first_seen_at |-> t, last_seen_at |-> t]
            ELSE tbl[c]]

\* remove_course without its DELETE
RemoveCourse_NoDelete(tbl, code) == tbl

\* Database::remove_course: the table after the DELETE
RemoveCourse(tbl, code) == [c \in DOMAIN tbl \ {code} |-> tbl[c]]

\* Database::log_change: the row inserted into change_log
ChangeRow(change_type, course, t) ==
    [course_code |-> course.code, change_type |-> change_type,
     course_data |-> course, timestamp |-> t]

(* ----------------------------- sync_courses --------------------------- *)
\* sync_courses reporting new courses on the bootstrap run too
ReportsAdded_OnFirstRun(new, first_run) == new

\* sync_courses: whether an upserted course is reported in added
ReportsAdded(new, first_run) == new /\ ~first_run

\* sync_courses: whether a removed course is reported in removed
ReportsRemoved(first_run) == ~first_run

\* codes_to_remove taking every stored code, listed or not
CodesToRemove_AllExisting(existing_codes, current_codes) == existing_codes

\* codes_to_remove with the operands of the difference exchanged
CodesToRemove_Swapped(existing_codes, current_codes) ==
    current_codes \ existing_codes

\* sync_courses: codes_to_remove
CodesToRemove(existing_codes, current_codes) == existing_codes \ current_codes

(* ----------------------------- points filter -------------------------- *)
\* PointsFilter
FilterNone == [kind |-> "None"]
FilterExact(v) == [kind |-> "Exact", value |-> v]
FilterRange(min, max) == [kind |-> "Range", min |-> min, max |-> max]

Abs(n) == IF n < 0 THEN -n ELSE n

\* the literal 0.01 of PointsFilter::matches, an f32
Epsilon == F32OfDecimal(FALSE, 1, 2)

\* matches with exclusive bounds on a Range
Matches_Exclusive(f, points) ==
    CASE f.kind = "None" -> TRUE
      [] f.kind = "Exact" -> F32Lt(F32Abs(F32Sub(points, f.value)), Epsilon)
      [] f.kind = "Range" ->
            /\ (f.min = NoValue \/ F32Lt(f.min[1], points))
            /\ (f.max = NoValue \/ F32Lt(points, f.max[1]))

\* PointsFilter::matches
Matches(f, points) ==
    CASE f.kind = "None" -> TRUE
      [] f.kind = "Exact" -> F32Lt(F32Abs(F32Sub(points, f.value)), Epsilon)
      [] f.kind = "Range" ->
            /\ (f.min = NoValue \/ F32Le(f.min[1], points))
            /\ (f.max = NoValue \/ F32Le(points, f.max[1]))

\* PointsFilter::description
Description(f) ==
    CASE f.kind = "None" -> "all courses"
      [] f.kind = "Exact" ->
            "courses with exactly " \o F32ToString(f.value) \o " points"
      [] f.kind = "Range" ->
            IF f.min # NoValue /\ f.max # NoValue
            THEN "courses with " \o F32ToString(f.min[1]) \o "-"
                     \o F32ToString(f.max[1]) \o " points"
            ELSE IF f.min # NoValue
            THEN "courses with >= " \o F32ToString(f.min[1]) \o " points"
            ELSE IF f.max # NoValue
            THEN "courses with <= " \o F32ToString(f.max[1]) \o " points"
            ELSE "all courses"

\* the range rule of parse_points_filter_expr: the expression is split at
\* its first hyphen, when that is neither its first nor its last character
RangeRule(expr) ==
    LET dash_pos == Find(expr, "-")
    IN IF dash_pos # NoValue /\ dash_pos[1] > 0 /\ dash_pos[1] < Len(expr) - 1
       THEN LET left == ParseF32(Trim(SliceTo(expr, dash_pos[1])))
                right == ParseF32(Trim(SliceFrom(expr, dash_pos[1] + 1)))
            IN IF left # NoValue /\ right # NoValue
               THEN Some(FilterRange(left, right))
               ELSE NoValue
       ELSE NoValue

\* a prefix rule of parse_points_filter_expr: expr starts with `prefix` and
\* the rest parses
PrefixRule(expr, prefix) ==
    IF StartsWith(expr, prefix)
    THEN ParseF32(Trim(SliceFrom(expr, Len(prefix))))
    ELSE NoValue

\* a suffix rule of parse_points_filter_expr: expr ends with the character
\* and what is before it parses
SuffixRule(expr, suffix) ==
    IF EndsWith(expr, <<suffix>>)
    THEN ParseF32(Trim(SliceTo(expr, Len(expr) - 1)))
    ELSE NoValue

\* parse_points_filter_expr: Some(filter), or NoValue when no rule applies
ParsePointsFilterExpr(text) ==
    LET expr == Trim(text)
        range == RangeRule(expr)
        ge == PrefixRule(expr, <<">", "=">>)
        gt == IF StartsWith(expr, <<">", "=">>) THEN NoValue
              ELSE PrefixRule(expr, <<">">>)
        plus == SuffixRule(expr, "+")
        le == PrefixRule(expr, <<"<", "=">>)
        lt == IF StartsWith(expr, <<"<", "=">>) THEN NoValue
              ELSE PrefixRule(expr, <<"<">>)
        minus == IF Len(expr) > 1 THEN SuffixRule(expr, "-") ELSE NoValue
        exact == ParseF32(expr)
    IN IF expr = <<>> THEN Some(FilterNone)
       ELSE IF range # NoValue THEN range
       ELSE IF ge # NoValue THEN Some(FilterRange(ge, NoValue))
       ELSE IF gt # NoValue THEN Some(FilterRange(gt, NoValue))
       ELSE IF plus # NoValue THEN Some(FilterRange(plus, NoValue))
       ELSE IF le # NoValue THEN Some(FilterRange(NoValue, le))
       ELSE IF lt # NoValue THEN Some(FilterRange(NoValue, lt))
       ELSE IF minus # NoValue THEN Some(FilterRange(NoValue, minus))
       ELSE IF exact # NoValue THEN Some(FilterExact(exact[1]))
       ELSE NoValue

(* ------------------------------- config ------------------------------- *)
\* Config: the fields the points filter is resolved from
Config(expr, exact, min, max) ==
    [points_filter_expr |-> expr, points_exact |-> exact,
     points_min |-> min, points_max |-> max]

\* points_filter looking at the numeric flags before the expression
PointsFilter_FlagsFirst(cfg) ==
    LET parsed == IF cfg.points_filter_expr # NoValue
                  THEN ParsePointsFilterExpr(cfg.points_filter_expr[1])
                  ELSE NoValue
    IN IF cfg.points_exact # NoValue THEN FilterExact(cfg.points_exact[1])
       ELSE IF cfg.points_min # NoValue \/ cfg.points_max # NoValue
       THEN FilterRange(cfg.points_min, cfg.points_max)
       ELSE IF parsed # NoValue THEN parsed[1]
       ELSE FilterNone

\* Config::points_filter
PointsFilter(cfg) ==
    LET parsed == IF cfg.points_filter_expr # NoValue
                  THEN ParsePointsFilterExpr(cfg.points_filter_expr[1])
                  ELSE NoValue
    IN IF parsed # NoValue THEN parsed[1]
       ELSE IF cfg.points_exact # NoValue THEN FilterExact(cfg.points_exact[1])
       ELSE IF cfg.points_min # NoValue \/ cfg.points_max # NoValue
       THEN FilterRange(cfg.points_min, cfg.points_max)
       ELSE FilterNone

\* Config::validate, the part on the points filter; the url, database,
\* email and sms settings of the model's configurations are valid
Validate(cfg) ==
    /\ ~(/\ cfg.points_min # NoValue
          /\ cfg.points_max # NoValue
          /\ F32Lt(cfg.points_max[1], cfg.points_min[1]))
    /\ ~(cfg.points_exact # NoValue /\ F32Lt(cfg.points_exact[1], F32Zero))

\* the configurations the scrape loop is started with: no filter, and
\* --points-exact 2.5
Configs ==
    {Config(NoValue, NoValue, NoValue, NoValue),
     Config(NoValue, Some(F32OfDecimal(FALSE, 25, 1)), NoValue, NoValue)}

\* the filters the configurations of the model resolve to
Filters == {PointsFilter(cfg) : cfg \in Configs}

\* a filter that collects the matching courses last to first
RECURSIVE KeepMatching_Reversed(_, _)
KeepMatching_Reversed(f, s) ==
    IF s = <<>> THEN <<>>
    ELSE IF Matches(f, Head(s).points)
         THEN KeepMatching_Reversed(f, Tail(s)) \o <<Head(s)>>
         ELSE KeepMatching_Reversed(f, Tail(s))

\* Iterator::filter(..).cloned().collect()
RECURSIVE KeepMatching(_, _)
KeepMatching(f, s) ==
    IF s = <<>> THEN <<>>
    ELSE IF Matches(f, Head(s).points)
         THEN <<Head(s)>> \o KeepMatching(f, Tail(s))
         ELSE KeepMatching(f, Tail(s))

\* filter_changes
FilterChanges(sync_added, sync_removed, f) ==
    [added |-> KeepMatching(f, sync_added),
     removed |-> KeepMatching(f, sync_removed)]

\* ScrapeDiff::is_empty
DiffIsEmpty(diff) == diff.added = <<>> /\ diff.removed = <<>>

\* SyncResult::has_changes
HasChanges(sync_added, sync_removed) ==
    sync_added # <<>> \/ sync_removed # <<>>

(* ------------------------------ notifiers ----------------------------- *)
\* build_notifiers: the console notifier and the email notifier
Notifiers == <<"console", "email">>

\* what Notifier::notify can return: TRUE is Ok, FALSE is Err; the console
\* notifier only prints
NotifyOutcomes(name) == IF name = "console" THEN {TRUE} ELSE {TRUE, FALSE}

\* notify_all called for raw changes, whatever the filter left of them
ShouldNotify_Unfiltered(first_run, sync_added, sync_removed, diff) ==
    ~first_run /\ HasChanges(sync_added, sync_removed)

\* run_scrape_cycle: whether notify_all is called
ShouldNotify(first_run, sync_added, sync_removed, diff) ==
    /\ ~first_run
    /\ HasChanges(sync_added, sync_removed)
    /\ ~DiffIsEmpty(diff)

\* notification_sent only when no notifier failed
NotificationSent_AllSucceeded(results) ==
    results # <<>> /\ \A k \in 1..Len(results) : results[k].ok

\* run_scrape_cycle: notification_sent = success_count > 0
NotificationSent(results) == \E k \in 1..Len(results) : results[k].ok

CodeList(s) == [k \in 1..Len(s) |-> s[k].code]

\* run_scrape_cycle: the RunLog handed to log_run, and the id it gets
RunLog(id, total, sync_added, sync_removed, diff, f, sent, first_run) ==
    [id |-> id,
     total_courses_fetched |-> total,
     raw_added_count |-> Len(sync_added),
     raw_removed_count |-> Len(sync_removed),
     filtered_added_count |-> Len(diff.added),
     filtered_removed_count |-> Len(diff.removed),
     filter_used |-> Description(f),
     notification_sent |-> sent,
     is_first_run |-> first_run,
     added_courses |-> CodeList(diff.added),
     removed_courses |-> CodeList(diff.removed)]

\* the rows of run_log by descending id (ORDER BY id DESC)
RECURSIVE OrderByIdDesc(_)
OrderByIdDesc(rows) ==
    IF rows = {} THEN <<>>
    ELSE LET top == CHOOSE r \in rows : \A q \in rows : q.id <= r.id
         IN <<top>> \o OrderByIdDesc(rows \ {top})

\* get_run_logs without DESC
GetRunLogs_Ascending(tbl, limit) ==
    SubSeq(tbl, 1, IF limit < Len(tbl) THEN limit ELSE Len(tbl))

\* Database::get_run_logs: SELECT .. ORDER BY id DESC LIMIT ?
GetRunLogs(tbl, limit) ==
    LET sorted == OrderByIdDesc(Range(tbl))
    IN SubSeq(sorted, 1, IF limit < Len(sorted) THEN limit ELSE Len(sorted))

\* Database::get_run_log: SELECT .. WHERE id = ?
GetRunLog(tbl, id) ==
    IF \E k \in 1..Len(tbl) : tbl[k].id = id
    THEN Some(tbl[CHOOSE k \in 1..Len(tbl) : tbl[k].id = id])
    ELSE NoValue

(* ------------------------------- actions ------------------------------ *)
EmptyTable == [c \in {} |-> 0]

\* the tables as they are, and the list of the last call of sync_courses
\* when that call returned Ok
Snapshot ==
    [courses |-> courses, change_log |-> change_log, run_log |-> run_log,
     synced |-> IF pc = "cycle_end" /\ result = "ok" THEN Some(fetched)
                ELSE IF pc = "cycle_end" /\ result = "storage_error"
                     THEN NoValue
                     ELSE pre.synced]

tables == <<courses, change_log, run_log>>
\* the variables run_scrape_cycle does not touch
other == <<runs, config, command, probe>>
sync_locals == <<now, is_first_run, existing, idx, is_new, added, removed,
                 codes_to_remove, pending>>

\* the process before run_start has read its configuration: the tables are
\* those of Database::open_in_memory after run_migrations
CycleInit ==
    /\ courses = EmptyTable
    /\ change_log = <<>>
    /\ run_log = <<>>
    /\ pc = "start"
    /\ cycle_number = 0
    /\ fetched = <<>>
    /\ now = 0
    /\ is_first_run = FALSE
    /\ existing = EmptyTable
    /\ idx = 0
    /\ is_new = FALSE
    /\ added = <<>>
    /\ removed = <<>>
    /\ codes_to_remove = {}
    /\ pending = <<>>
    /\ result = "none"
    /\ filter = FilterNone
    /\ notified = <<>>
    /\ pre = [courses |-> EmptyTable, change_log |-> <<>>, run_log |-> <<>>,
              synced |-> NoValue]
    /\ syncs_completed = 0

\* Command: the scrape modes, a single check or the loop
Commands == {"check", "start"}

Init ==
    /\ CycleInit
    /\ config \in Configs
    /\ command \in Commands
    /\ runs = <<>>
    /\ probe = <<>>

\* run_start up to the scrape loop: config.validate()? returns the error to
\* main, or the filter is resolved once, for every cycle of the run
Startup ==
    /\ pc = "start"
    /\ IF Validate(config)
       THEN /\ filter' = PointsFilter(config)
            /\ pc' = "idle"
            /\ UNCHANGED result
       ELSE /\ pc' = "rejected"
            /\ result' = "config_error"
            /\ UNCHANGED filter
    /\ UNCHANGED <<tables, cycle_number, fetched, sync_locals, notified, pre,
                   syncs_completed>>
    /\ UNCHANGED other

\* the locals of sync_courses go out of scope
DropSyncLocals ==
    /\ is_first_run' = FALSE
    /\ existing' = EmptyTable
    /\ idx' = 0
    /\ is_new' = FALSE
    /\ added' = <<>>
    /\ removed' = <<>>
    /\ codes_to_remove' = {}
    /\ pending' = <<>>
    /\ UNCHANGED now

\* run_scrape_cycle: scraper.fetch_courses() returns Ok(list); sync_courses
\* is entered and reads Utc::now().  The ticker starts cycle k at tick k, so
\* the time read in a later cycle is later
FetchCourses ==
    /\ pc = "idle"
    /\ cycle_number < MaxCycles
    /\ cycle_number' = cycle_number + 1
    /\ \E list \in CourseLists : fetched' = list
    /\ now' = cycle_number'
    /\ pre' = Snapshot
    /\ pc' = "is_first_run"
    /\ UNCHANGED <<tables, is_first_run, existing, idx, is_new, added, removed,
                   codes_to_remove, pending, result, filter, notified,
                   syncs_completed>>
    /\ UNCHANGED other

\* run_scrape_cycle: scraper.fetch_courses() returns Err, the cycle returns it
FetchFails ==
    /\ pc = "idle"
    /\ cycle_number < MaxCycles
    /\ cycle_number' = cycle_number + 1
    /\ pre' = Snapshot
    /\ result' = "fetch_error"
    /\ pc' = "cycle_end"
    /\ UNCHANGED <<tables, fetched, sync_locals, filter, notified,
                   syncs_completed>>
    /\ UNCHANGED other

\* sync_courses: self.is_first_run().await?
SyncIsFirstRun ==
    /\ pc = "is_first_run"
    /\ is_first_run' = IsFirstRun(courses)
    /\ pc' = "get_all"
    /\ UNCHANGED <<tables, cycle_number, fetched, now, existing, idx, is_new,
                   added, removed, codes_to_remove, pending, result, filter,
                   notified, pre, syncs_completed>>
    /\ UNCHANGED other

\* sync_courses: where the upsert loop goes after position i - 1: the next
\* incoming course, or the removal loop over codes_to_remove, or the return
AfterUpsert(i, exist) ==
    IF i <= Len(fetched)
    THEN /\ idx' = i
         /\ pc' = "upsert"
         /\ UNCHANGED codes_to_remove
    ELSE /\ idx' = i
         /\ codes_to_remove' = CodesToRemove(DOMAIN exist, CodesOf(fetched))
         /\ pc' = IF codes_to_remove' = {} THEN "synced" ELSE "remove"

\* sync_courses: self.get_all_courses().await?
SyncGetAll ==
    /\ pc = "get_all"
    /\ existing' = GetAllCourses(courses)
    /\ AfterUpsert(1, existing')
    /\ UNCHANGED <<tables, cycle_number, fetched, now, is_first_run, is_new,
                   added, removed, pending, result, filter, notified, pre,
                   syncs_completed>>
    /\ UNCHANGED other

\* sync_courses: self.upsert_course(course, now).await? and added.push
SyncUpsert ==
    /\ pc = "upsert"
    /\ LET course == fetched[idx]
       IN /\ is_new' = UpsertIsNew(courses, course)
          /\ courses' = UpsertCourse(courses, course, now)
          /\ IF ReportsAdded(is_new', is_first_run)
             THEN /\ added' = Append(added, course)
                  /\ pending' = <<course>>
                  /\ pc' = "log_added"
                  /\ UNCHANGED <<idx, codes_to_remove>>
             ELSE /\ AfterUpsert(idx + 1, existing)
                  /\ UNCHANGED <<added, pending>>
    /\ UNCHANGED <<change_log, run_log, cycle_number, fetched, now,
                   is_first_run, existing, removed, result, filter, notified,
                   pre, syncs_completed>>
    /\ UNCHANGED other

\* sync_courses: self.log_change(&CourseChange::Added(..)).await?
SyncLogAdded ==
    /\ pc = "log_added"
    /\ change_log' = Append(change_log, ChangeRow("added", pending[1], now))
    /\ pending' = <<>>
    /\ AfterUpsert(idx + 1, existing)
    /\ UNCHANGED <<courses, run_log, cycle_number, fetched, now, is_first_run,
                   existing, is_new, added, removed, result, filter, notified,
                   pre, syncs_completed>>
    /\ UNCHANGED other

\* sync_courses: where the removal loop goes when `rest` is still to visit
AfterRemove(rest) ==
    /\ codes_to_remove' = rest
    /\ pc' = IF rest = {} THEN "synced" ELSE "remove"

\* sync_courses: self.remove_course(&code).await? for the next code of
\* codes_to_remove, which a HashSet difference yields in any order
SyncRemove ==
    /\ pc = "remove"
    /\ \E code \in codes_to_remove :
         IF code \in DOMAIN courses
         THEN /\ courses' = RemoveCourse(courses, code)
              /\ IF ReportsRemoved(is_first_run)
                 THEN /\ pending' = <<RowCourse(code, courses[code])>>
                      /\ codes_to_remove' = codes_to_remove \ {code}
                      /\ pc' = "log_removed"
                 ELSE /\ AfterRemove(codes_to_remove \ {code})
                      /\ UNCHANGED pending
         ELSE /\ AfterRemove(codes_to_remove \ {code})
              /\ UNCHANGED <<courses, pending>>
    /\ UNCHANGED <<change_log, run_log, cycle_number, fetched, now,
                   is_first_run, existing, idx, is_new, added, removed, result,
                   filter, notified, pre, syncs_completed>>
    /\ UNCHANGED other

\* sync_courses: self.log_change(&CourseChange::Removed(..)).await? and
\* removed.push
SyncLogRemoved ==
    /\ pc = "log_removed"
    /\ change_log' = Append(change_log, ChangeRow("removed", pending[1], now))
    /\ removed' = Append(removed, pending[1])
    /\ pending' = <<>>
    /\ AfterRemove(codes_to_remove)
    /\ UNCHANGED <<courses, run_log, cycle_number, fetched, now, is_first_run,
                   existing, idx, is_new, added, result, filter, notified, pre,
                   syncs_completed>>
    /\ UNCHANGED other

\* the positions at which sync_courses awaits a storage operation
StorageOps ==
    {"is_first_run", "get_all", "upsert", "log_added", "remove", "log_removed"}

\* the error of sync_courses dropped instead of returned
SyncErrorPropagates_Dropped == FALSE

\* run_scrape_cycle: `db.sync_courses(&courses).await?` returns the error of
\* sync_courses to the caller of the cycle
SyncErrorPropagates == TRUE

\* a storage operation of sync_courses returns Err: the statement changes
\* nothing, `?` returns the error from sync_courses and then from the cycle,
\* and the locals of both are dropped
StorageError ==
    /\ pc \in StorageOps
    /\ IF SyncErrorPropagates
       THEN /\ result' = "storage_error"
            /\ pc' = "cycle_end"
            /\ fetched' = <<>>
            /\ DropSyncLocals
       ELSE /\ pc' = "synced"
            /\ UNCHANGED <<result, fetched, sync_locals>>
    /\ UNCHANGED <<tables, cycle_number, filter, notified, pre,
                   syncs_completed>>
    /\ UNCHANGED other

\* notify_all: every notifier of the chain is invoked in order with diff
NotifyAll(diff) ==
    {r \in [1..Len(Notifiers) -> [name : Range(Notifiers), ok : BOOLEAN,
                                  diff : {diff}]] :
        \A k \in 1..Len(Notifiers) :
            /\ r[k].name = Notifiers[k]
            /\ r[k].ok \in NotifyOutcomes(Notifiers[k])}

\* run_scrape_cycle after sync_courses returned Ok: filter_changes, then
\* notify_all when there is something to report
Notify ==
    /\ pc = "synced"
    /\ LET diff == FilterChanges(added, removed, filter)
       IN IF ShouldNotify(is_first_run, added, removed, diff)
          THEN \E r \in NotifyAll(diff) : notified' = r
          ELSE notified' = <<>>
    /\ pc' = "log_run"
    /\ UNCHANGED <<tables, cycle_number, fetched, sync_locals, result, filter,
                   pre, syncs_completed>>
    /\ UNCHANGED other

\* run_scrape_cycle: db.log_run(&run_log) returns Ok(id); the cycle returns Ok
LogRun ==
    /\ pc = "log_run"
    /\ run_log' = Append(run_log,
            RunLog(Len(run_log) + 1, Len(fetched), added, removed,
                   FilterChanges(added, removed, filter), filter,
                   NotificationSent(notified), is_first_run))
    /\ result' = "ok"
    /\ pc' = "cycle_end"
    /\ UNCHANGED <<courses, change_log, cycle_number, fetched, sync_locals,
                   filter, notified, pre, syncs_completed>>
    /\ UNCHANGED other

\* the error of log_run returned by the cycle
LogRunErrorIgnored_Propagated == FALSE

\* run_scrape_cycle: `if let Err(e) = db.log_run(..)` logs the error and
\* goes on
LogRunErrorIgnored == TRUE

\* run_scrape_cycle: db.log_run(&run_log) returns Err, which is logged and
\* dropped; the cycle returns Ok
LogRunFails ==
    /\ pc = "log_run"
    /\ result' = IF LogRunErrorIgnored THEN "ok" ELSE "storage_error"
    /\ pc' = "cycle_end"
    /\ UNCHANGED <<tables, cycle_number, fetched, sync_locals, filter,
                   notified, pre, syncs_completed>>
    /\ UNCHANGED other

\* run_start returning the error of a cycle to main
CycleErrorLogged_Returned == FALSE

\* run_start: the Err of a cycle is logged by the loop and goes no further
CycleErrorLogged == TRUE

\* run_start: the cycle has returned and its locals are dropped; the loop
\* waits for ticker.tick()
Tick ==
    /\ pc = "cycle_end"
    /\ command = "start"
    /\ pc' = IF result = "ok" \/ CycleErrorLogged THEN "idle" ELSE "exited"
    /\ fetched' = <<>>
    /\ DropSyncLocals
    /\ notified' = <<>>
    /\ result' = "none"
    /\ pre' = Snapshot
    /\ syncs_completed' = IF result = "ok" THEN syncs_completed + 1
                          ELSE syncs_completed
    /\ UNCHANGED <<tables, cycle_number, filter>>
    /\ UNCHANGED other

\* run_check: the one cycle has returned, its result is the result of main
Exit ==
    /\ pc = "cycle_end"
    /\ command = "check"
    /\ pc' = "exited"
    /\ UNCHANGED <<tables, cycle_number, fetched, sync_locals, result, filter,
                   notified, pre, syncs_completed>>
    /\ UNCHANGED other

\* main: the ExitCode of the process for the result of its command
ExitCode(res) == IF res = "ok" THEN "SUCCESS" ELSE "FAILURE"

Next ==
    \/ Startup
    \/ FetchCourses
    \/ FetchFails
    \/ SyncIsFirstRun
    \/ SyncGetAll
    \/ SyncUpsert
    \/ SyncLogAdded
    \/ SyncRemove
    \/ SyncLogRemoved
    \/ StorageError
    \/ Notify
    \/ LogRun
    \/ LogRunFails
    \/ Tick
    \/ Exit

Spec == Init /\ [][Next]_vars

\* the process started without a points filter
RetryInit ==
    /\ CycleInit
    /\ config = Config(NoValue, NoValue, NoValue, NoValue)
    /\ command \in Commands
    /\ runs = <<>>
    /\ probe = <<>>

\* the process keeps running: the ticker fires, and every operation a cycle
\* awaits returns, with Ok or with Err
SpecRetry == RetryInit /\ [][Next]_vars /\ WF_vars(Next)

(* ------------------- two stores synced side by side ------------------- *)
\* sync_courses, the upsert loop from position k on a store tbl: the store
\* and the added list it ends with
RECURSIVE UpsertAll(_, _, _, _, _)
UpsertAll(tbl, list, k, t, first_run) ==
    IF k > Len(list)
    THEN [courses |-> tbl, added |-> <<>>]
    ELSE LET course == list[k]
             new == UpsertIsNew(tbl, course)
             rest == UpsertAll(UpsertCourse(tbl, course, t), list, k + 1, t,
                               first_run)
         IN [courses |-> rest.courses,
             added |-> IF ReportsAdded(new, first_run)
                       THEN <<course>> \o rest.added
                       ELSE rest.added]

\* sync_courses, the removal loop: the store it ends with
RECURSIVE RemoveAll(_, _)
RemoveAll(tbl, codes) ==
    IF codes = {} THEN tbl
    ELSE LET code == CHOOSE c \in codes : TRUE
         IN RemoveAll(IF code \in DOMAIN tbl THEN RemoveCourse(tbl, code)
                      ELSE tbl,
                      codes \ {code})

\* sync_courses when no storage operation fails: the store it leaves and the
\* SyncResult it returns, with removed as a set (its order is the HashSet's)
SyncCourses(tbl, list, t) ==
    LET first_run == IsFirstRun(tbl)
        exist == GetAllCourses(tbl)
        up == UpsertAll(tbl, list, 1, t, first_run)
        to_remove == CodesToRemove(DOMAIN exist, CodesOf(list))
    IN [courses |-> RemoveAll(up.courses, to_remove),
        added |-> up.added,
        removed |-> IF ReportsRemoved(first_run)
                    THEN {RowCourse(c, up.courses[c]) :
                              c \in to_remove \cap DOMAIN up.courses}
                    ELSE {},
        is_first_run |-> first_run]

\* the incoming list without its courses of code x
RECURSIVE WithoutCode(_, _)
WithoutCode(list, x) ==
    IF list = <<>> THEN <<>>
    ELSE IF Head(list).code = x THEN WithoutCode(Tail(list), x)
         ELSE <<Head(list)>> \o WithoutCode(Tail(list), x)

\* the state of a store no sync call has run on
FreshRun ==
    [courses |-> EmptyTable, added |-> <<>>, removed |-> {},
     is_first_run |-> FALSE]

\* two stores opened empty; x is the code whose presence tells the incoming
\* lists of the two runs apart
PairInit ==
    /\ CycleInit
    /\ config = Config(NoValue, NoValue, NoValue, NoValue)
    /\ command = "start"
    /\ probe = <<>>
    /\ \E x \in Codes :
          runs = [x |-> x, cycle |-> 0, with |-> FreshRun, without |-> FreshRun]

\* one cycle of both runs: sync_courses(list) on the first store and
\* sync_courses(list without the courses of code x) on the second
PairSync ==
    /\ runs.cycle < MaxCycles
    /\ \E list \in CourseLists :
          runs' = [x |-> runs.x,
                   cycle |-> runs.cycle + 1,
                   with |-> SyncCourses(runs.with.courses, list,
                                        runs.cycle + 1),
                   without |-> SyncCourses(runs.without.courses,
                                           WithoutCode(list, runs.x),
                                           runs.cycle + 1)]
    /\ UNCHANGED <<tables, pc, cycle_number, fetched, sync_locals, result,
                   filter, notified, pre, syncs_completed, config, command,
                   probe>>

PairNext == PairSync

SpecPair == PairInit /\ [][PairNext]_vars

(* ---------------- the filter functions on their inputs ---------------- *)
\* the characters of the filter expressions
Chars == {"2", "5", ".", "-", "+", ">", "<", "=", " "}

\* the filter expressions
Texts == UNION {[1..n -> Chars] : n \in 0..MaxExprLen}

\* the numeric flags given with an expression: none; --points-exact 2.5;
\* --points-min 2; --points-min 2 --points-max 5; --points-min 5
\* --points-max 2; --points-exact 2.5 --points-max 5
ProbeFlags ==
    LET two == Some(F32OfDecimal(FALSE, 2, 0))
        two_and_half == Some(F32OfDecimal(FALSE, 25, 1))
        five == Some(F32OfDecimal(FALSE, 5, 0))
    IN {<<NoValue, NoValue, NoValue>>,
        <<two_and_half, NoValue, NoValue>>,
        <<NoValue, two, NoValue>>,
        <<NoValue, two, five>>,
        <<NoValue, five, two>>,
        <<two_and_half, NoValue, five>>}

\* the configurations the filter is resolved from
ProbeConfigs ==
    {Config(e, f[1], f[2], f[3]) :
        e \in {NoValue} \cup {Some(t) : t \in Texts}, f \in ProbeFlags}

\* the variables of the scrape cycle
cycle_vars == <<tables, pc, cycle_number, fetched, sync_locals, result,
                notified, pre, syncs_completed>>

ConfigInit ==
    /\ CycleInit
    /\ config \in ProbeConfigs
    /\ command = "start"
    /\ runs = <<>>
    /\ probe = <<>>

\* parse_points_filter_expr applied to the configured expression
ProbeParse ==
    /\ pc = "start"
    /\ probe = <<>>
    /\ config.points_filter_expr # NoValue
    /\ probe' = [fn |-> "parse_points_filter_expr",
                 out |-> ParsePointsFilterExpr(config.points_filter_expr[1])]
    /\ UNCHANGED <<cycle_vars, filter, runs, config, command>>

\* Config::points_filter applied to the configuration
ProbePointsFilter ==
    /\ pc = "start"
    /\ probe = <<>>
    /\ probe' = [fn |-> "points_filter", out |-> PointsFilter(config)]
    /\ UNCHANGED <<cycle_vars, filter, runs, config, command>>

ParseNext ==
    \/ ProbeParse
    \/ ProbePointsFilter

\* the filter functions of the configuration applied to every configuration
SpecParse == ConfigInit /\ [][ParseNext]_vars

\* the process is started with the configuration; its cycles get no page
ConfigNext ==
    \/ Startup
    \/ FetchFails
    \/ Tick

SpecConfig == ConfigInit /\ [][ConfigNext]_vars

\* point values in hundredths: the filter bounds and the course points the
\* filters are applied to
FilterHundredths == {250, 500, 750, 1000}
ProbeHundredths ==
    {200, 249, 250, 251, 499, 500, 501, 750, 999, 1000, 1001, 1200}

FilterValues == {F32OfDecimal(FALSE, h, 2) : h \in FilterHundredths}

\* the PointsFilter values matches and description are applied to
ProbeFilters ==
    {FilterNone}
        \cup {FilterExact(v) : v \in FilterValues}
        \cup {FilterRange(a, b) :
                 a \in {NoValue} \cup {Some(v) : v \in FilterValues},
                 b \in {NoValue} \cup {Some(v) : v \in FilterValues}}

MatchInit ==
    /\ CycleInit
    /\ config = Config(NoValue, NoValue, NoValue, NoValue)
    /\ command = "start"
    /\ runs = <<>>
    /\ probe \in {[fn |-> "new", self |-> f] : f \in ProbeFilters}

\* PointsFilter::matches applied to the points of a course
ProbeMatches ==
    /\ probe.fn = "new"
    /\ \E h \in ProbeHundredths :
          probe' = [fn |-> "matches", self |-> probe.self, points |-> h,
                    out |-> Matches(probe.self, F32OfDecimal(FALSE, h, 2))]
    /\ UNCHANGED <<cycle_vars, filter, runs, config, command>>

\* PointsFilter::description
ProbeDescription ==
    /\ probe.fn = "new"
    /\ probe' = [fn |-> "description", self |-> probe.self,
                 out |-> Description(probe.self)]
    /\ UNCHANGED <<cycle_vars, filter, runs, config, command>>

MatchNext ==
    \/ ProbeMatches
    \/ ProbeDescription

SpecMatch == MatchInit /\ [][MatchNext]_vars

(* ------------------------- the page extractor ------------------------- *)
\* str::find(&str): the offset of the first occurrence of pat, or NoValue
FindStr(s, pat) ==
    LET at(k) == k + Len(pat) - 1 <= Len(s)
                     /\ SubSeq(s, k, k + Len(pat) - 1) = pat
    IN IF \E k \in 1..Len(s) : at(k)
       THEN <<(CHOOSE k \in 1..Len(s) :
                   at(k) /\ \A j \in 1..(k - 1) : ~at(j)) - 1>>
       ELSE NoValue

\* str::contains
Contains(s, pat) == FindStr(s, pat) # NoValue

\* str::replace(char, &str) with a one-character replacement
Replace(s, from, to) == [k \in 1..Len(s) |-> IF s[k] = from THEN to ELSE s[k]]

\* the separator of code and name in the text of a course
Separator == <<" ", "-", " ">>

\* parse_course_text taking the last separator as the split point
ParseCourseText_LastSeparator(raw) ==
    LET text == Trim(raw)
        at(k) == k + 2 <= Len(text) /\ SubSeq(text, k, k + 2) = Separator
    IN IF \E k \in 1..Len(text) : at(k)
       THEN LET k == CHOOSE k \in 1..Len(text) :
                         at(k) /\ \A j \in (k + 1)..Len(text) : ~at(j)
            IN [code |-> Trim(SliceTo(text, k - 1)),
                name |-> Trim(SliceFrom(text, k + 2))]
       ELSE [code |-> text, name |-> <<>>]

\* parse_course_text
ParseCourseText(raw) ==
    LET text == Trim(raw)
        pos == FindStr(text, Separator)
    IN IF pos # NoValue
       THEN [code |-> Trim(SliceTo(text, pos[1])),
             name |-> Trim(SliceFrom(text, pos[1] + 3))]
       ELSE [code |-> text, name |-> <<>>]

\* parse_points
ParsePoints(raw) == ParseF32(Replace(Trim(raw), ",", "."))

\* a td without a link, a td whose first link has the href and the text
TextCell(text) == [link |-> NoValue, text |-> text]
LinkCell(href, text) ==
    [link |-> Some([href |-> href, text |-> text]), text |-> text]

\* Course::new of the extractor: code, name and faculty are texts
ScrapedCourse(code, name, points, url, faculty) ==
    [code |-> code, name |-> name, points |-> points, url |-> url,
     faculty |-> faculty]

\* the loop body giving a course of 0 points when the points are no number
ParseRow_DefaultPoints(tds, faculty) ==
    IF Len(tds) < 2 THEN <<>>
    ELSE LET link == tds[1].link
             parsed == IF link # NoValue THEN ParseCourseText(link[1].text)
                       ELSE ParseCourseText(tds[1].text)
             points == ParsePoints(tds[2].text)
         IN IF parsed.code = <<>> THEN <<>>
            ELSE <<ScrapedCourse(parsed.code, parsed.name,
                                 IF points # NoValue THEN points[1]
                                 ELSE F32Zero,
                                 IF link # NoValue /\ link[1].href # NoValue
                                 THEN link[1].href[1] ELSE "",
                                 faculty)>>

\* the body of the loop of parse_table: the courses one tr contributes
ParseRow(tds, faculty) ==
    IF Len(tds) < 2 THEN <<>>
    ELSE LET first_td == tds[1]
             link == first_td.link
             url == IF link # NoValue
                    THEN (IF link[1].href # NoValue THEN link[1].href[1]
                          ELSE "")
                    ELSE ""
             parsed == IF link # NoValue THEN ParseCourseText(link[1].text)
                       ELSE ParseCourseText(first_td.text)
             points == ParsePoints(tds[2].text)
         IN IF parsed.code = <<>> THEN <<>>
            ELSE IF points # NoValue
                 THEN <<ScrapedCourse(parsed.code, parsed.name, points[1],
                                      url, faculty)>>
                 ELSE <<>>

\* CourseScraper::parse_table
RECURSIVE ParseTable(_, _)
ParseTable(table, faculty) ==
    IF table = <<>> THEN <<>>
    ELSE ParseRow(Head(table), faculty) \o ParseTable(Tail(table), faculty)

\* the ids of the h2 elements that are navigation, not faculties
Sporsmal == <<"s", "p", "o", "r", "s", "m", "a", "l">>
Kontakt == <<"k", "o", "n", "t", "a", "k", "t">>

\* parse_courses: faculty_map, the names of the h2[id] elements kept
RECURSIVE FacultyMap(_)
FacultyMap(h2s) ==
    IF h2s = <<>> THEN <<>>
    ELSE LET h2 == Head(h2s)
             faculty_name == Trim(h2.text)
             kept == /\ h2.id # NoValue
                     /\ ~(Contains(h2.id[1], Sporsmal)
                            \/ Contains(h2.id[1], Kontakt))
                     /\ faculty_name # <<>>
         IN (IF kept THEN <<faculty_name>> ELSE <<>>)
                \o FacultyMap(Tail(h2s))

UnknownFaculty ==
    <<"U", "n", "k", "n", "o", "w", "n", " ",
      "F", "a", "c", "u", "l", "t", "y">>

\* parse_courses: the faculty a table is parsed with
FacultyAt(faculty_map, table_idx) ==
    IF table_idx < Len(faculty_map) THEN faculty_map[table_idx + 1]
    ELSE UnknownFaculty

\* the loop over the tables counting every table, with or without courses
RECURSIVE ParseTables_CountsEveryTable(_, _, _)
ParseTables_CountsEveryTable(tbls, faculty_map, table_idx) ==
    IF tbls = <<>> THEN <<>>
    ELSE ParseTable(Head(tbls), FacultyAt(faculty_map, table_idx))
             \o ParseTables_CountsEveryTable(Tail(tbls), faculty_map,
                                             table_idx + 1)

\* parse_courses: the loop over the tables, table_idx counting the tables
\* that gave courses
RECURSIVE ParseTables(_, _, _)
ParseTables(tbls, faculty_map, table_idx) ==
    IF tbls = <<>> THEN <<>>
    ELSE LET faculty == FacultyAt(faculty_map, table_idx)
             table_courses == ParseTable(Head(tbls), faculty)
         IN table_courses
                \o ParseTables(Tail(tbls), faculty_map,
                               IF table_courses # <<>> THEN table_idx + 1
                               ELSE table_idx)

\* CourseScraper::parse_courses.  (The parser gives every document a body,
\* so a content element is always found.)
ParseCourses(page) ==
    ParseTables(page.tables, FacultyMap(page.h2s), 0)

(* ------------------- the extractor on its inputs ---------------------- *)
\* the characters of the text of a course and of a points cell
CourseChars == {"A", "N", " ", "-"}
PointsChars == {"2", "5", ",", ".", " ", "-", "x"}

CourseTexts == UNION {[1..n -> CourseChars] : n \in 0..MaxTextLen}
PointsTexts == UNION {[1..n -> PointsChars] : n \in 0..MaxPointsLen}

\* the h2 elements of a page: two faculties, two navigation headings, one
\* heading with blank text, one without an id
ProbeH2s ==
    {[id |-> Some(<<"h", "f">>), text |-> <<" ", "H", "F", " ">>],
     [id |-> Some(<<"m", "n">>), text |-> <<"M", "N">>],
     [id |-> Some(Kontakt \o <<"-", "1">>), text |-> <<"K">>],
     [id |-> Some(<<"o", "m", "-">> \o Sporsmal), text |-> <<"S">>],
     [id |-> Some(<<"j", "u", "s">>), text |-> <<" ">>],
     [id |-> NoValue, text |-> <<"X">>]}

\* the tr elements of a table: one td only; a blank first td; points that
\* are no number; "A - N" linked, 2,5 points; "A" without link, 10 points;
\* "B - N" in a link without href, 5 points, and a third td
ProbeRows ==
    {<<TextCell(<<"A", " ", "-", " ", "N">>)>>,
     <<TextCell(<<" ", " ">>), TextCell(<<"1", "0">>)>>,
     <<LinkCell(Some("/b"), <<"B">>), TextCell(<<"x">>)>>,
     <<LinkCell(Some("/a"), <<"A", " ", "-", " ", "N">>), TextCell(<<"2", ",", "5">>)>>,
     <<TextCell(<<" ", "A">>), TextCell(<<" ", "1", "0">>)>>,
     <<LinkCell(NoValue, <<"B", " ", "-", " ", "N">>), TextCell(<<"5">>),
       TextCell(<<"x">>)>>}

ProbeTables == UNION {[1..n -> ProbeRows] : n \in 0..MaxRows}

\* the pages parse_courses is applied to
ProbePages ==
    {[h2s |-> h, tables |-> t] :
        h \in UNION {[1..n -> ProbeH2s] : n \in 0..MaxH2s},
        t \in UNION {[1..n -> ProbeTables] : n \in 0..MaxTables}}

TextInit ==
    /\ CycleInit
    /\ config = Config(NoValue, NoValue, NoValue, NoValue)
    /\ command = "start"
    /\ runs = <<>>
    /\ probe \in {[fn |-> "new", arg |-> "text", text |-> t] :
                     t \in CourseTexts}
            \cup {[fn |-> "new", arg |-> "points", text |-> t] :
                     t \in PointsTexts}

ScrapeInit ==
    /\ CycleInit
    /\ config = Config(NoValue, NoValue, NoValue, NoValue)
    /\ command = "start"
    /\ runs = <<>>
    /\ probe \in {[fn |-> "new", arg |-> "html", html |-> h] :
                     h \in ProbePages}

\* parse_course_text applied to the text of a first td
ProbeParseCourseText ==
    /\ probe.fn = "new"
    /\ probe.arg = "text"
    /\ probe' = [fn |-> "parse_course_text", text |-> probe.text,
                 out |-> ParseCourseText(probe.text)]
    /\ UNCHANGED <<cycle_vars, filter, runs, config, command>>

\* parse_points applied to the text of a second td
ProbeParsePoints ==
    /\ probe.fn = "new"
    /\ probe.arg = "points"
    /\ probe' = [fn |-> "parse_points", text |-> probe.text,
                 out |-> ParsePoints(probe.text)]
    /\ UNCHANGED <<cycle_vars, filter, runs, config, command>>

\* parse_courses applied to a page
ProbeParseCourses ==
    /\ probe.fn = "new"
    /\ probe.arg = "html"
    /\ probe' = [fn |-> "parse_courses", html |-> probe.html,
                 out |-> ParseCourses(probe.html)]
    /\ UNCHANGED <<cycle_vars, filter, runs, config, command>>

TextNext ==
    \/ ProbeParseCourseText
    \/ ProbeParsePoints

\* the functions of the cells applied to every text
SpecText == TextInit /\ [][TextNext]_vars

ScrapeNext == ProbeParseCourses

\* the extractor applied to every page
SpecScrape == ScrapeInit /\ [][ScrapeNext]_vars

(* ------------------------------- claims ------------------------------- *)
\* sync_courses has returned Ok(SyncResult) and the cycle has not gone on
SyncReturned == pc = "synced"

\* C1: after every sync_courses call that returns successfully, whatever
\* the store held before, the set of persisted codes equals the set of
\* incoming codes: no orphan remains and no incoming code is missing.
C1_StoreEqualsIncoming ==
    SyncReturned => DOMAIN courses = CodesOf(fetched)

\* a non-bootstrap call on a store left by a failed cycle returns after an
\* insert and a delete
C1_Witness ==
    /\ SyncReturned
    /\ ~is_first_run
    /\ syncs_completed < cycle_number - 1
    /\ added # <<>>
    /\ removed # <<>>

\* C2: a call on a store that holds no course returns is_first_run = true
\* with added and removed empty, writes no change-log row, and leaves every
\* incoming code in the store.
C2_BootstrapIsSilent ==
    (SyncReturned /\ DOMAIN pre.courses = {}) =>
        /\ is_first_run
        /\ added = <<>>
        /\ removed = <<>>
        /\ change_log = pre.change_log
        /\ CodesOf(fetched) \subseteq DOMAIN courses

\* a bootstrap call with two incoming courses has returned
C2_Witness ==
    /\ SyncReturned
    /\ DOMAIN pre.courses = {}
    /\ Cardinality(CodesOf(fetched)) = 2
    /\ Cardinality(DOMAIN courses) = 2

\* C3: in a successful non-bootstrap call the codes of added are the
\* incoming codes not persisted before the call, the codes of removed are
\* the codes persisted before the call and not incoming, each once; a code
\* on both sides is in neither list, also when its attributes changed.
C3_DeltaIsSetDifference ==
    (SyncReturned /\ ~is_first_run) =>
        /\ CodesOf(added) = CodesOf(fetched) \ DOMAIN pre.courses
        /\ CodesOf(removed) = DOMAIN pre.courses \ CodesOf(fetched)
        /\ NoDuplicateCodes(added)
        /\ NoDuplicateCodes(removed)

\* a non-bootstrap call has returned with one course added, one removed and
\* one kept whose attributes changed
C3_Witness ==
    /\ SyncReturned
    /\ ~is_first_run
    /\ added # <<>>
    /\ removed # <<>>
    /\ \E c \in DOMAIN pre.courses \cap DOMAIN courses :
            courses[c].name # pre.courses[c].name

\* C4: no code is both in added and in removed.
C4_AddedRemovedDisjoint == CodesOf(added) \cap CodesOf(removed) = {}

\* a call has returned with both lists non-empty
C4_Witness ==
    /\ SyncReturned
    /\ Len(added) >= 1
    /\ Len(removed) >= 1
    /\ Len(fetched) = MaxLen

\* the positions of sync_courses at which is_first_run has been computed
FirstRunKnown == {"get_all", "upsert", "log_added", "remove", "log_removed",
                  "synced"}

\* C5: once a first sync call has completed on the store, every later sync
\* call returns is_first_run = false and reports in added every code it
\* newly inserted, whatever the incoming lists were.
C5_NeverLeavesPopulated ==
    (syncs_completed >= 1 /\ pc \in FirstRunKnown) =>
        /\ ~is_first_run
        /\ SyncReturned =>
              (DOMAIN courses \ DOMAIN pre.courses) \subseteq CodesOf(added)

\* the cycle has returned the error of a storage operation of sync_courses
CycleFailedOnStorage == pc = "cycle_end" /\ result = "storage_error"

\* C6: when a storage operation of sync_courses fails, the cycle ends there
\* with an error, no notifier has been invoked in it and no run record has
\* been appended in it.
C6_StorageErrorAbortsCycle ==
    [][StorageError =>
          /\ pc' = "cycle_end"
          /\ result' = "storage_error"
          /\ notified' = <<>>
          /\ run_log' = pre.run_log]_vars

\* a cycle has failed on a storage error after it had logged a change, in a
\* run whose earlier cycle appended a run record
C6_Witness ==
    /\ CycleFailedOnStorage
    /\ change_log # pre.change_log
    /\ run_log # <<>>
    /\ notified = <<>>

\* C7: a cycle that fails on a storage error inside sync_courses leaves the
\* persisted courses (codes and attributes) and the change log as they were
\* when the cycle started.
C7_FailedCycleCommitsNothing ==
    CycleFailedOnStorage =>
        /\ GetAllCourses(courses) = GetAllCourses(pre.courses)
        /\ change_log = pre.change_log

\* C9: upsert_course on a store that holds the code returns false, keeps
\* the count and replaces name, points, url and faculty by the argument's;
\* on a store that does not hold the code it returns true and the count
\* grows by one; no row of another code changes.
C9_UpsertContract ==
    [][SyncUpsert =>
          LET course == fetched[idx]
          IN /\ course.code \in DOMAIN courses =>
                  /\ ~is_new'
                  /\ GetCourseCount(courses') = GetCourseCount(courses)
                  /\ RowCourse(course.code, courses'[course.code]) = course
             /\ course.code \notin DOMAIN courses =>
                  /\ is_new'
                  /\ GetCourseCount(courses') = GetCourseCount(courses) + 1
             /\ \A c \in Codes \ {course.code} :
                  /\ (c \in DOMAIN courses') = (c \in DOMAIN courses)
                  /\ c \in DOMAIN courses => courses'[c] = courses[c]]_vars

\* an upsert has just replaced all four attributes of a stored code while
\* another code was stored
C9_Witness ==
    /\ pc \in {"upsert", "remove", "synced"}
    /\ idx >= 2
    /\ ~is_new
    /\ LET course == fetched[idx - 1]
       IN /\ course.code \in DOMAIN pre.courses
          /\ pre.courses[course.code].name # course.name
          /\ pre.courses[course.code].points # course.points
          /\ pre.courses[course.code].url # course.url
          /\ pre.courses[course.code].faculty # course.faculty
          /\ RowCourse(course.code, courses[course.code]) = course
    /\ GetCourseCount(courses) >= 2

\* C10: when the incoming list repeats a code, the store ends the call
\* with one row for the code, carrying the attributes of its last occurrence.
C10_LastOccurrenceWins ==
    SyncReturned =>
        \A k \in 1..Len(fetched) :
            (\A j \in (k + 1)..Len(fetched) : fetched[j].code # fetched[k].code)
            => /\ fetched[k].code \in DOMAIN courses
               /\ RowCourse(fetched[k].code, courses[fetched[k].code])
                      = fetched[k]

\* a call has returned whose incoming list held one code twice with
\* different attributes
C10_Witness ==
    /\ SyncReturned
    /\ \E j, k \in 1..Len(fetched) :
          /\ j < k
          /\ fetched[j].code = fetched[k].code
          /\ fetched[j] # fetched[k]

\* how a SyncResult classifies a code
Classification(res, code) ==
    IF code \in CodesOf(res.added) THEN "added"
    ELSE IF code \in {c.code : c \in res.removed} THEN "removed"
    ELSE "neither"

\* C8: in two runs from empty stores whose incoming lists differ only in
\* the courses of one code x, every other code is classified alike (added,
\* removed or neither) in every cycle of both runs.
C8_IdentitiesIndependent ==
    runs # <<>> =>
        \A y \in Codes \ {runs.x} :
            Classification(runs.with, y) = Classification(runs.without, y)

\* the courses of s whose points the filter of the run matches, in order
MatchesFilter(c) == Matches(filter, c.points)
MatchingOf(s) == SelectSeq(s, MatchesFilter)

\* the cycle has passed filter_changes and holds what sync_courses returned
Filtered == pc = "log_run" \/ (pc = "cycle_end" /\ result = "ok")

\* C11: filter_changes returns as added the courses of result.added whose
\* points the filter matches, in their order, and as removed those of
\* result.removed, in their order; with PointsFilter::None both lists come
\* back unchanged.  The delta is the one the notifiers get and the one the
\* run record counts and lists.
C11_FilterKeepsMatchingInOrder ==
    Filtered =>
        /\ \A k \in 1..Len(notified) :
              /\ notified[k].diff.added = MatchingOf(added)
              /\ notified[k].diff.removed = MatchingOf(removed)
              /\ filter = FilterNone =>
                    notified[k].diff = [added |-> added, removed |-> removed]
        /\ (pc = "cycle_end" /\ run_log # pre.run_log) =>
              LET record == run_log[Len(run_log)]
              IN /\ record.added_courses = CodeList(MatchingOf(added))
                 /\ record.removed_courses = CodeList(MatchingOf(removed))
                 /\ filter = FilterNone =>
                       /\ record.added_courses = CodeList(added)
                       /\ record.removed_courses = CodeList(removed)

\* a cycle with the filter Exact(2.5) has notified a delta that keeps two
\* added courses in their order and drops the removed one
C11_Witness ==
    /\ Filtered
    /\ filter.kind = "Exact"
    /\ notified # <<>>
    /\ Len(added) = 2
    /\ notified[1].diff.added = added
    /\ removed # <<>>
    /\ notified[1].diff.removed = <<>>

\* the value of an f32 in hundredths, for an f32 that is a number of
\* hundredths
Hundredths(x) == IF x.neg THEN -ScaledInteger(x, 2) ELSE ScaledInteger(x, 2)

\* C12: Exact(v).matches(p) holds if and only if |p - v| < 0.01, so that
\* Exact(2.5) matches 2.5 and does not match 2.51.
C12_ExactWithinEpsilon ==
    (probe # <<>> /\ probe.fn = "matches" /\ probe.self.kind = "Exact") =>
        (probe.out <=> Abs(probe.points - Hundredths(probe.self.value)) < 1)

\* C13: Range{min,max}.matches(p) holds if and only if p is at least min,
\* when min is set, and at most max, when max is set, both inclusive; a
\* Range with no bound matches every value and is described as
\* PointsFilter::None is; PointsFilter::None matches every value.
C13_RangeInclusive ==
    /\ (probe # <<>> /\ probe.fn = "matches" /\ probe.self.kind = "Range") =>
          (probe.out <=>
              /\ (probe.self.min = NoValue
                     \/ probe.points >= Hundredths(probe.self.min[1]))
              /\ (probe.self.max = NoValue
                     \/ probe.points <= Hundredths(probe.self.max[1])))
    /\ (/\ probe # <<>>
        /\ probe.fn = "matches"
        /\ probe.self \in {FilterNone, FilterRange(NoValue, NoValue)}) =>
          probe.out
    /\ (/\ probe # <<>>
        /\ probe.fn = "description"
        /\ probe.self = FilterRange(NoValue, NoValue)) =>
          probe.out = "all courses"
    /\ (probe # <<>> /\ probe.fn = "description" /\ probe.self = FilterNone) =>
          probe.out = "all courses"

\* Range(5, 10) has been applied to 5 points, its lower bound
C13_Witness ==
    /\ probe # <<>>
    /\ probe.fn = "matches"
    /\ probe.self = FilterRange(Some(F32OfDecimal(FALSE, 5, 0)),
                                Some(F32OfDecimal(FALSE, 10, 0)))
    /\ probe.points = 500
    /\ probe.out

\* parse_points_filter_expr has been applied to the configured expression
Parsed == probe # <<>> /\ probe.fn = "parse_points_filter_expr"

\* the text is a number str::parse::<f32> accepts
IsNumber(text) == ParseF32(text) # NoValue

\* the positions of a text at which a hyphen separates two numbers
SeparatingHyphens(text) ==
    {k \in 2..(Len(text) - 1) :
        /\ text[k] = "-"
        /\ IsNumber(Trim(SubSeq(text, 1, k - 1)))
        /\ IsNumber(Trim(SubSeq(text, k + 1, Len(text))))}

\* C14: for all numbers v and w, ">=v", ">v" and "v+" parse to
\* Range(min=v, max=None); "<=v", "<v" and "v-" to Range(min=None, max=v);
\* "v-w" to Range(min=v, max=w); v alone to Exact(v); the empty and the
\* whitespace-only string to None.
C14_ParseForms ==
    Parsed =>
        LET text == config.points_filter_expr[1]
            n == Len(text)
            after(k) == SubSeq(text, k + 1, n)
            before(k) == SubSeq(text, 1, k - 1)
        IN /\ (StartsWith(text, <<">", "=">>) /\ IsNumber(after(2))) =>
                 probe.out = Some(FilterRange(ParseF32(after(2)), NoValue))
           /\ (StartsWith(text, <<">">>) /\ IsNumber(after(1))) =>
                 probe.out = Some(FilterRange(ParseF32(after(1)), NoValue))
           /\ (EndsWith(text, <<"+">>) /\ IsNumber(before(n))) =>
                 probe.out = Some(FilterRange(ParseF32(before(n)), NoValue))
           /\ (StartsWith(text, <<"<", "=">>) /\ IsNumber(after(2))) =>
                 probe.out = Some(FilterRange(NoValue, ParseF32(after(2))))
           /\ (StartsWith(text, <<"<">>) /\ IsNumber(after(1))) =>
                 probe.out = Some(FilterRange(NoValue, ParseF32(after(1))))
           /\ (EndsWith(text, <<"-">>) /\ IsNumber(before(n))) =>
                 probe.out = Some(FilterRange(NoValue, ParseF32(before(n))))
           /\ \A k \in 2..(n - 1) :
                 (text[k] = "-" /\ IsNumber(before(k)) /\ IsNumber(after(k))) =>
                     probe.out = Some(FilterRange(ParseF32(before(k)),
                                                  ParseF32(after(k))))
           /\ IsNumber(text) => probe.out = Some(FilterExact(ParseF32(text)[1]))
           /\ Trim(text) = <<>> => probe.out = Some(FilterNone)

\* C15: every trimmed expression with a hyphen that is neither its first
\* nor its last character, and with a number on either side of that hyphen,
\* parses to Range(min=left, max=right), also when the left number is
\* negative.
C15_RangeRuleFirst ==
    Parsed =>
        LET text == Trim(config.points_filter_expr[1])
        IN \A k \in SeparatingHyphens(text) :
              probe.out =
                  Some(FilterRange(ParseF32(Trim(SubSeq(text, 1, k - 1))),
                                   ParseF32(Trim(SubSeq(text, k + 1,
                                                        Len(text))))))

\* Config::points_filter has been applied to the configuration
Resolved == probe # <<>> /\ probe.fn = "points_filter"

\* C16: Config::points_filter returns the filter of the expression when
\* the expression is set and parses, whatever the numeric flags are;
\* otherwise Exact(points_exact) when that is set, else
\* Range(points_min, points_max) when one of them is set, else None.
C16_ExpressionPrecedence ==
    Resolved =>
        LET parsed == IF config.points_filter_expr = NoValue THEN NoValue
                      ELSE ParsePointsFilterExpr(config.points_filter_expr[1])
        IN /\ parsed # NoValue => probe.out = parsed[1]
           /\ (parsed = NoValue /\ config.points_exact # NoValue) =>
                 probe.out = FilterExact(config.points_exact[1])
           /\ (/\ parsed = NoValue
               /\ config.points_exact = NoValue
               /\ (config.points_min # NoValue \/ config.points_max # NoValue)) =>
                 probe.out = FilterRange(config.points_min, config.points_max)
           /\ (/\ parsed = NoValue
               /\ config.points_exact = NoValue
               /\ config.points_min = NoValue
               /\ config.points_max = NoValue) =>
                 probe.out = FilterNone

\* points_filter has returned the filter of a range expression for a
\* configuration that also sets --points-exact
C16_Witness ==
    /\ Resolved
    /\ config.points_filter_expr = Some(<<"2", "-", "5">>)
    /\ config.points_exact # NoValue
    /\ probe.out.kind = "Range"

\* the configuration has an expression that does not parse and no numeric
\* flag to fall back on
UnparseableWithoutFallback ==
    /\ config.points_filter_expr # NoValue
    /\ ParsePointsFilterExpr(config.points_filter_expr[1]) = NoValue
    /\ config.points_exact = NoValue
    /\ config.points_min = NoValue
    /\ config.points_max = NoValue

\* the process has got past validation, or has started a cycle
PastValidation == pc \notin {"start", "rejected"} \/ cycle_number >= 1

\* C17: a filter expression that does not parse, configured with no exact,
\* min or max flag, is a configuration error: validation fails and no cycle
\* runs with another filter in its place.
C17_UnparseableExprRejected == UnparseableWithoutFallback => ~PastValidation

\* a Range filter whose min exceeds its max
MinAboveMax(f) ==
    /\ f.kind = "Range"
    /\ f.min # NoValue
    /\ f.max # NoValue
    /\ F32Lt(f.max[1], f.min[1])

\* C18: a configuration, by flags or by expression, that resolves to a
\* Range with min > max fails validation before any cycle runs, so that no
\* cycle runs with such a filter.
C18_MinAboveMaxRejected ==
    /\ MinAboveMax(PointsFilter(config)) => ~PastValidation
    /\ cycle_number >= 1 => ~MinAboveMax(filter)

\* the cycle is at the ledger write and had something to notify
NotifiedBeforeLedger ==
    LET diff == [added |-> MatchingOf(added), removed |-> MatchingOf(removed)]
    IN (~is_first_run /\ (diff.added # <<>> \/ diff.removed # <<>>)) =>
          /\ Len(notified) = Len(Notifiers)
          /\ \A k \in 1..Len(notified) :
                notified[k].name = Notifiers[k] /\ notified[k].diff = diff

\* C19: when log_run returns an error the cycle still returns Ok, and the
\* notifiers of the cycle have been invoked with the filtered delta before
\* the write was attempted.
C19_LedgerFailureSwallowed ==
    [][LogRunFails =>
          /\ result' = "ok"
          /\ pc' = "cycle_end"
          /\ NotifiedBeforeLedger
          /\ notified' = notified
          /\ UNCHANGED tables]_vars

\* a cycle has returned Ok without its run record, after both notifiers
\* were invoked
C19_Witness ==
    /\ pc = "cycle_end"
    /\ result = "ok"
    /\ run_log = pre.run_log
    /\ Len(notified) = 2

\* what the reads of the run ledger return on the table tbl
LedgerReads(tbl) ==
    /\ \A j, k \in 1..Len(tbl) : j < k => tbl[j].id < tbl[k].id
    /\ \A n \in 0..(Len(tbl) + 1) :
          LET got == GetRunLogs(tbl, n)
          IN /\ Len(got) = IF n < Len(tbl) THEN n ELSE Len(tbl)
             /\ Range(got) \subseteq Range(tbl)
             /\ \A j, k \in 1..Len(got) : j < k => got[j].id > got[k].id
             /\ \A r \in Range(tbl) \ Range(got) :
                   \A k \in 1..Len(got) : r.id < got[k].id
    /\ \A id \in 0..(Len(tbl) + 1) :
          GetRunLog(tbl, id) =
              IF \E k \in 1..Len(tbl) : tbl[k].id = id
              THEN Some(CHOOSE r \in Range(tbl) : r.id = id)
              ELSE NoValue

\* C20: the run ledger is append-only: every record keeps the id and the
\* content it was appended with, ids grow in append order, get_run_logs(N)
\* returns the min(N, total) records of largest id by descending id, and
\* get_run_log(id) returns the record of that id, or none.
C20_LedgerAppendOnly ==
    [][/\ Len(run_log') >= Len(run_log)
       /\ \A k \in 1..Len(run_log) : run_log'[k] = run_log[k]
       /\ run_log' # run_log =>
             /\ Len(run_log') = Len(run_log) + 1
             /\ LedgerReads(run_log')]_vars

\* the ledger holds the records of two cycles that differ
C20_Witness ==
    /\ Len(run_log) >= 2
    /\ run_log[1].total_courses_fetched # run_log[2].total_courses_fetched
    /\ GetRunLogs(run_log, 1) = <<run_log[Len(run_log)]>>
    /\ GetRunLog(run_log, 1) = Some(run_log[1])

\* parse_courses has been applied to a page
Extracted == probe # <<>> /\ probe.fn = "parse_courses"

\* an h2 element that the faculty index has an entry for
IsFaculty(h2) ==
    /\ h2.id # NoValue
    /\ ~Contains(h2.id[1], Sporsmal)
    /\ ~Contains(h2.id[1], Kontakt)
    /\ Trim(h2.text) # <<>>

\* the number of courses the rows of a table give
Yield(table) == Len(ParseTable(table, <<>>))

\* the number of the tables before table i of the page that give a course
ProductiveBefore(page, i) ==
    Cardinality({j \in 1..(i - 1) : Yield(page.tables[j]) > 0})

\* the number of courses the tables before table i of the page give
RECURSIVE YieldBefore(_, _)
YieldBefore(page, i) ==
    IF i <= 1 THEN 0
    ELSE YieldBefore(page, i - 1) + Yield(page.tables[i - 1])

\* C21: the courses of the k-th table (from 0) among the tables that give a
\* course carry the name of the k-th faculty heading, or "Unknown Faculty"
\* when there are no more than k faculty headings; tables that give no course
\* are not counted; the faculty headings are the h2 elements with an id that
\* has no contact or question marker and with text that is not blank
C21_ProductiveTablesPairFaculties ==
    Extracted =>
        LET page == probe.html
            index == SelectSeq(page.h2s, IsFaculty)
            label(k) == IF k < Len(index) THEN Trim(index[k + 1].text)
                        ELSE UnknownFaculty
        IN /\ Len(probe.out) = YieldBefore(page, Len(page.tables) + 1)
           /\ \A i \in 1..Len(page.tables) :
                 \A r \in 1..Yield(page.tables[i]) :
                    probe.out[YieldBefore(page, i) + r].faculty =
                        label(ProductiveBefore(page, i))

\* a page with a navigation heading before its one faculty heading and a
\* table of rows that give no course before a table that gives one: the
\* course carries the faculty
C21_Witness ==
    /\ Extracted
    /\ Len(probe.html.h2s) = 2
    /\ ~IsFaculty(probe.html.h2s[1])
    /\ IsFaculty(probe.html.h2s[2])
    /\ Len(probe.html.tables) = 2
    /\ probe.html.tables[1] # <<>>
    /\ Yield(probe.html.tables[1]) = 0
    /\ Len(probe.out) >= 1
    /\ probe.out[1].faculty = Trim(probe.html.h2s[2].text)

\* the text of a row that holds the code and the name: the text of the first
\* link of the first td, or of the td when it has no link
CourseTextOf(tds) ==
    IF tds[1].link # NoValue THEN tds[1].link[1].text ELSE tds[1].text

\* a row that is well formed: two cells or more, a code that is not empty
\* and points that are a number
WellFormed(tds) ==
    /\ Len(tds) >= 2
    /\ ParseCourseText(CourseTextOf(tds)).code # <<>>
    /\ ParsePoints(tds[2].text) # NoValue

\* the rows of all tables of a page, in the order of the page
RECURSIVE RowsOf(_)
RowsOf(tbls) == IF tbls = <<>> THEN <<>> ELSE Head(tbls) \o RowsOf(Tail(tbls))

SeparatorAt(t) ==
    {k \in 1..(Len(t) - 2) : t[k] = " " /\ t[k + 1] = "-" /\ t[k + 2] = " "}

\* the least number of a set of numbers that is not empty
Least(S) == CHOOSE k \in S : \A j \in S : k <= j

\* a trimmed text that is a number: an optional sign, then digits with at
\* most one point among them
IsDecimal(t) ==
    LET body == IF t # <<>> /\ t[1] \in {"+", "-"} THEN Tail(t) ELSE t
    IN /\ \E k \in 1..Len(body) : body[k] \in Digits
       /\ \A k \in 1..Len(body) : body[k] \in Digits \cup {"."}
       /\ Cardinality({k \in 1..Len(body) : body[k] = "."}) <= 1

\* C23: parse_course_text splits the trimmed text at the first " - ": the
\* code is the trimmed part before it and the name the trimmed part after
\* it; without a " - " the code is the whole trimmed text and the name is
\* empty.  parse_points gives a number exactly when the trimmed text with
\* every comma read as a point is a number, and gives the same for the text
\* trimmed and for the text with points in place of its commas
C23_CourseTextAndPoints ==
    /\ (probe # <<>> /\ probe.fn = "parse_course_text") =>
          LET t == Trim(probe.text)
          IN IF SeparatorAt(t) # {}
             THEN LET k == Least(SeparatorAt(t))
                  IN /\ probe.out.code = Trim(SubSeq(t, 1, k - 1))
                     /\ probe.out.name = Trim(SubSeq(t, k + 3, Len(t)))
             ELSE probe.out.code = t /\ probe.out.name = <<>>
    /\ (probe # <<>> /\ probe.fn = "parse_points") =>
          /\ (probe.out # NoValue) <=>
                IsDecimal(Replace(Trim(probe.text), ",", "."))
          /\ probe.out = ParsePoints(Trim(probe.text))
          /\ probe.out = ParsePoints(Replace(probe.text, ",", "."))
          /\ probe.text = <<"2", ",", "5">> =>
                probe.out = Some(F32OfDecimal(FALSE, 25, 1))
          /\ probe.text = <<" ", "5", " ">> =>
                probe.out = Some(F32OfDecimal(FALSE, 5, 0))

\* a text with two separators, the second starting at the blank that ends
\* the first: the code is what stands before the first, the name what
\* stands after it
C23_Witness ==
    /\ probe # <<>>
    /\ probe.fn = "parse_course_text"
    /\ Cardinality(SeparatorAt(Trim(probe.text))) = 2
    /\ probe.out.code = <<"A">>
    /\ probe.out.name = <<"-", " ", "N">>

\* the cycle has returned a fetch or storage error
CycleFailed ==
    pc = "cycle_end" /\ result \in {"fetch_error", "storage_error"}

\* C24: after a cycle that failed on a fetch or storage error the loop of
\* start mode waits for the next tick, from which alone the next cycle
\* starts, and the process never exits; in check mode the process exits
\* with the error of its one cycle and a failure code
C24_FailedCycleRetriedOrFatal ==
    [][/\ CycleFailed =>
             IF command = "start"
             THEN pc' = "idle" /\ cycle_number' = cycle_number
             ELSE /\ pc' = "exited"
                  /\ result' = result
                  /\ ExitCode(result') = "FAILURE"
       /\ cycle_number' # cycle_number =>
             /\ pc = "idle"
             /\ cycle_number' = cycle_number + 1
             /\ command = "check" => cycle_number = 0
       /\ pc' = "exited" => command = "check"]_vars

\* the loop runs its second cycle after a first cycle that failed on a
\* storage error, having stored a course
C24_Witness ==
    /\ command = "start"
    /\ cycle_number = 2
    /\ pc = "get_all"
    /\ syncs_completed = 0
    /\ pre.courses # EmptyTable

\* the filtered delta of the cycle
FilteredDelta == FilterChanges(added, removed, filter)

\* C25: a cycle invokes its notifiers, each once and in the order of the
\* chain with the filtered delta, exactly when its sync returned Ok, the
\* run is not the bootstrap run and the filtered delta is not empty; the
\* record of a bootstrap run has notification_sent = false
C25_NotifiedIffFilteredChanges ==
    /\ Filtered =>
          /\ notified # <<>> <=> (~is_first_run /\ ~DiffIsEmpty(FilteredDelta))
          /\ notified # <<>> =>
                /\ Len(notified) = Len(Notifiers)
                /\ \A k \in 1..Len(notified) :
                      /\ notified[k].name = Notifiers[k]
                      /\ notified[k].diff = FilteredDelta
    /\ notified # <<>> =>
          \/ pc = "log_run"
          \/ pc \in {"cycle_end", "exited"} /\ result = "ok"
    /\ \A k \in 1..Len(run_log) :
          run_log[k].is_first_run => ~run_log[k].notification_sent

\* a cycle after the bootstrap run whose changes are all filtered out: no
\* notifier was invoked
C25_Witness ==
    /\ Filtered
    /\ ~is_first_run
    /\ HasChanges(added, removed)
    /\ DiffIsEmpty(FilteredDelta)
    /\ notified = <<>>
    /\ \E k \in 1..Len(run_log) : run_log[k].is_first_run

AbsentFromPopulated(x) ==
    pc = "idle" /\ courses # EmptyTable /\ x \notin DOMAIN courses

\* the list of the cycle, once fetched, has a course of code x
Listed(x) ==
    pc \in StorageOps \cup {"synced", "log_run"} => x \in CodesOf(fetched)

\* the cycle has returned Ok
CompletedOk == pc = "cycle_end" /\ result = "ok"

\* the cycle has returned Ok and its sync result has x in added, the list
\* the filter is applied to for the notifiers
ReportedAdded(x) == CompletedOk /\ x \in CodesOf(added)

C28_ReportedMatchesPersisted ==
    (SyncReturned /\ ~is_first_run) =>
        /\ \A k \in 1..Len(added) :
              /\ added[k].code \in DOMAIN courses
              /\ added[k] = RowCourse(added[k].code, courses[added[k].code])
        /\ \A k \in 1..Len(removed) :
              /\ removed[k].code \in DOMAIN pre.courses
              /\ removed[k] =
                    RowCourse(removed[k].code, pre.courses[removed[k].code])

\* sync_courses has returned Ok for the list for which the call before it
\* returned Ok as well
SyncedSameListAgain == SyncReturned /\ pre.synced = Some(fetched)

\* C29: when sync_courses returns Ok for the same list as the call before
\* it, which returned Ok too, its added and removed lists are empty, the
\* change log is as it was, and the store holds the same codes with the same
\* name, points, url and faculty
C29_SyncIdempotent ==
    SyncedSameListAgain =>
        /\ added = <<>>
        /\ removed = <<>>
        /\ change_log = pre.change_log
        /\ DOMAIN courses = DOMAIN pre.courses
        /\ \A c \in DOMAIN courses :
              RowCourse(c, courses[c]) = RowCourse(c, pre.courses[c])

\* the second sync of a list that has one code twice with different
\* attributes; the rows were written again
C29_Witness ==
    /\ SyncedSameListAgain
    /\ Len(fetched) = 2
    /\ fetched[1].code = fetched[2].code
    /\ fetched[1] # fetched[2]
    /\ ~is_first_run
    /\ \E c \in DOMAIN courses :
          courses[c].last_seen_at > pre.courses[c].last_seen_at

\* C30: the upsert of a code the store does not hold writes the time of the
\* cycle as first_seen_at and last_seen_at, also when the code was held and
\* removed before; the upsert of a code the store holds writes the time of
\* the cycle as last_seen_at and keeps first_seen_at; no other step changes
\* a timestamp; and first_seen_at <= last_seen_at for every stored course
C30_SeenTimestamps ==
    [][/\ (pc = "upsert" /\ pc' # "cycle_end") =>
             LET c == fetched[idx].code
             IN /\ c \in DOMAIN courses'
                /\ courses'[c].last_seen_at = now
                /\ courses'[c].first_seen_at =
                      (IF c \in DOMAIN courses THEN courses[c].first_seen_at
                       ELSE now)
       /\ \A c \in DOMAIN courses' :
             /\ courses'[c].first_seen_at <= courses'[c].last_seen_at
             /\ (c \in DOMAIN courses
                    /\ <<courses'[c].first_seen_at, courses'[c].last_seen_at>>
                          # <<courses[c].first_seen_at, courses[c].last_seen_at>>)
                   => pc = "upsert" /\ c = fetched[idx].code
             /\ c \notin DOMAIN courses
                   => pc = "upsert" /\ c = fetched[idx].code]_vars

\* a course that was removed in an earlier cycle and is stored again with a
\* first_seen_at after its removal, next to a course first seen before it
\* was last seen
C30_Witness ==
    /\ \E c \in DOMAIN courses :
          \E k \in 1..Len(change_log) :
             /\ change_log[k].change_type = "removed"
             /\ change_log[k].course_code = c
             /\ courses[c].first_seen_at > change_log[k].timestamp
             /\ courses[c].last_seen_at = now
    /\ \E c \in DOMAIN courses :
          courses[c].first_seen_at < courses[c].last_seen_at

\* the step-by-step sync_courses and SyncCourses agree on every call that
\* returns
SyncCoursesAgrees ==
    SyncReturned =>
        SyncCourses(pre.courses, fetched, now) =
            [courses |-> courses, added |-> added, removed |-> Range(removed),
             is_first_run |-> is_first_run]
====
